---- MODULE Spec2Model ----
(***************************************************************************)
(* A model of esri-leaflet's src/Util.js: the extent/bounds converters,    *)
(* the id-field heuristics, responseToFeatureCollection, cleanUrl,         *)
(* _setGeometry, and the dynamic attribution routines with the DOM state   *)
(* they touch.                                                             *)
(*                                                                         *)
(* JavaScript strings that the code inspects character by character (urls, *)
(* field names, attribution labels) are sequences of one-character         *)
(* strings.  A value that may be undefined is a record with a "def" flag.  *)
(***************************************************************************)
EXTENDS Integers, Sequences, FiniteSets, TLC

VARIABLES
  op,                \* the exported function last called ("none" before the call)
  arg,               \* its argument(s)
  ret,               \* its return value
  warnings,          \* number of console.warn calls made so far
  attributionControl,   \* whether the map has an attribution control
  esriAttributions,  \* map._esriAttributions
  attributionHTML,   \* innerHTML of the .esri-dynamic-attribution element
  elementMaxWidth,   \* style.maxWidth of that element
  eventsFired,       \* number of 'attributionupdated' events fired on the map
  lastEvent,         \* the attribution carried by the last such event
  view,              \* what map.getBounds() and map.getZoom() return
  mapWidth,          \* map.getSize().x
  pending,           \* attribution lookups whose callback has not run yet
  lastStep,          \* the handler that ran last
  esriAttributionAdded, \* map.attributionControl._esriAttributionAdded
  styles,            \* the <style> elements setEsriAttribution injected, still in the document
  containerClasses,  \* classes of the attribution control's container
  containerMaxWidth, \* style.maxWidth of the container
  prefix,            \* the attribution control's prefix
  listeners,         \* the map events setEsriAttribution listens to
  mapRemoved,        \* the map was removed, which fired its 'unload' event
  scripts,           \* the elements of class esri-leaflet-jsonp-script, in document order
  nextScriptId       \* id of the next script element

pureVars == <<op, arg, ret, warnings>>
attrVars == <<attributionControl, esriAttributions, attributionHTML, elementMaxWidth,
              eventsFired, lastEvent, view, mapWidth, pending, lastStep>>
domVars == <<esriAttributionAdded, styles, containerClasses, containerMaxWidth,
             prefix, listeners, mapRemoved, scripts, nextScriptId>>
vars == <<pureVars, attrVars, domVars>>

\* ---------------------------------------------------------------- bounds
MaxCoord == 1
MaxUrlLen == 4
MaxFields == 2
MaxFeatures == 2
MaxKeys == 2
MaxContributors == 2
MaxAreas == 2
MaxRecords == 2
MaxPending == 2
MaxEvents == 2
MaxZoom == 1
MaxScripts == 3

\* ------------------------------------------------------- JavaScript values
Undefined == [def |-> FALSE, s |-> <<>>]
Str(s) == [def |-> TRUE, s |-> s]
NotCalled == [called |-> FALSE]

Min(a, b) == IF a <= b THEN a ELSE b
Max(a, b) == IF a >= b THEN a ELSE b

RECURSIVE SeqsOfLen(_, _)
\* all sequences over S of length n
SeqsOfLen(S, n) ==
  IF n = 0 THEN {<<>>}
  ELSE {Append(q, x) : q \in SeqsOfLen(S, n - 1), x \in S}

\* all sequences over S of length at most n
SeqsUpTo(S, n) == UNION {SeqsOfLen(S, k) : k \in 0..n}

\* --------------------------------------------------- extents and bounds
\* An extent field is a number or the string "NaN" the server sends for a
\* null geometry.
Num(n) == [kind |-> "number", n |-> n]
NaNString == [kind |-> "NaN", n |-> 0]
Coords == (0 - MaxCoord)..MaxCoord
ExtentFields == {Num(n) : n \in Coords} \cup {NaNString}
ExtentInputs == [xmin : ExtentFields, ymin : ExtentFields,
                 xmax : ExtentFields, ymax : ExtentFields]

\* L.latLng(lat, lng)
latLng(lat, lng) == [lat |-> lat, lng |-> lng]

\* L.latLngBounds(corner1, corner2): the constructor extends an empty bounds by
\* each corner, so the result holds the minima and the maxima.
latLngBounds(a, b) ==
  [sw |-> latLng(Min(a.lat, b.lat), Min(a.lng, b.lng)),
   ne |-> latLng(Max(a.lat, b.lat), Max(a.lng, b.lng))]

\* Every LatLngBounds object the library hands out is normalised this way.
BoundsInputs == {latLngBounds(latLng(a, b), latLng(c, d)) :
                   a \in Coords, b \in Coords, c \in Coords, d \in Coords}

Null == [isNull |-> TRUE]
SomeBounds(b) == [isNull |-> FALSE, bounds |-> b]

WKID == 4326

extentToBoundsAllFour(extent) ==
  IF ~(extent.xmin.kind = "NaN" /\ extent.ymin.kind = "NaN"
       /\ extent.xmax.kind = "NaN" /\ extent.ymax.kind = "NaN")
  THEN SomeBounds(latLngBounds(latLng(extent.ymin.n, extent.xmin.n),
                               latLng(extent.ymax.n, extent.xmax.n)))
  ELSE Null

extentToBounds(extent) ==
  IF extent.xmin.kind # "NaN" /\ extent.ymin.kind # "NaN"
     /\ extent.xmax.kind # "NaN" /\ extent.ymax.kind # "NaN"
  THEN LET sw == latLng(extent.ymin.n, extent.xmin.n)
           ne == latLng(extent.ymax.n, extent.xmax.n)
       IN SomeBounds(latLngBounds(sw, ne))
  ELSE Null

boundsToExtentSwapped(bounds) ==
  [xmin |-> Num(bounds.sw.lat), ymin |-> Num(bounds.sw.lng),
   xmax |-> Num(bounds.ne.lat), ymax |-> Num(bounds.ne.lng),
   spatialReference |-> [wkid |-> WKID]]

boundsToExtent(bounds) ==
  [xmin |-> Num(bounds.sw.lng), ymin |-> Num(bounds.sw.lat),
   xmax |-> Num(bounds.ne.lng), ymax |-> Num(bounds.ne.lat),
   spatialReference |-> [wkid |-> WKID]]

\* ------------------------------------------------- state left untouched
NoAttributions == [def |-> FALSE, list |-> <<>>]
HomeView == [bounds |-> latLngBounds(latLng(0, 0), latLng(1, 1)), zoom |-> 0]

PureIdle == op = "none" /\ arg = NotCalled /\ ret = NotCalled /\ warnings = 0
Unset == [set |-> FALSE, px |-> 0]
Px(n) == [set |-> TRUE, px |-> n]

AttrIdle ==
  /\ attributionControl = TRUE
  /\ esriAttributions = NoAttributions
  /\ attributionHTML = <<>>
  /\ elementMaxWidth = Unset
  /\ eventsFired = 0
  /\ lastEvent = <<>>
  /\ view = HomeView
  /\ mapWidth = 0
  /\ pending = 0
  /\ lastStep = "init"
DomIdle ==
  /\ esriAttributionAdded = FALSE
  /\ styles = {}
  /\ containerClasses = {}
  /\ containerMaxWidth = Unset
  /\ prefix = "Leaflet"
  /\ listeners = {}
  /\ mapRemoved = FALSE
  /\ scripts = <<>>
  /\ nextScriptId = 1

\* ------------------------------------- calls of extentToBounds, boundsToExtent
InitExtent ==
  /\ op = "none"
  /\ \/ \E e \in ExtentInputs : arg = [kind |-> "extent", v |-> e]
     \/ \E b \in BoundsInputs : arg = [kind |-> "bounds", v |-> b]
  /\ ret = NotCalled
  /\ warnings = 0
  /\ AttrIdle
  /\ DomIdle

\* extentToBounds(arg), or extentToBounds of the extent boundsToExtent returned
CallExtentToBounds ==
  /\ \/ /\ op = "none"
        /\ arg.kind = "extent"
        /\ ret' = extentToBounds(arg.v)
        /\ op' = "extentToBounds"
     \/ /\ op = "boundsToExtent"
        /\ ret' = extentToBounds(ret)
        /\ op' = "roundTrip"
  /\ UNCHANGED <<arg, warnings, attrVars, domVars>>

CallBoundsToExtent ==
  /\ op = "none"
  /\ arg.kind = "bounds"
  /\ ret' = boundsToExtent(arg.v)
  /\ op' = "boundsToExtent"
  /\ UNCHANGED <<arg, warnings, attrVars, domVars>>

NextExtent == CallExtentToBounds \/ CallBoundsToExtent
SpecExtent == InitExtent /\ [][NextExtent]_vars

AllNaN(e) ==
  e.xmin.kind = "NaN" /\ e.ymin.kind = "NaN" /\ e.xmax.kind = "NaN" /\ e.ymax.kind = "NaN"
SomeNaN(e) ==
  e.xmin.kind = "NaN" \/ e.ymin.kind = "NaN" \/ e.xmax.kind = "NaN" \/ e.ymax.kind = "NaN"

\* C1 as stated: extentToBounds returns null exactly when all four extent
\* fields are the string "NaN", and a bounds object for every other extent,
\* those with only some "NaN" fields included.
C1_NullOnlyWhenAllNaN ==
  op = "extentToBounds" => (ret.isNull <=> AllNaN(arg.v))

\* C1 amended: extentToBounds returns null exactly when at least one of the
\* four extent fields is the string "NaN"; for every other extent it returns
\* the bounds whose corners are (ymin, xmin) and (ymax, xmax).
C1_NullWhenAnyNaN ==
  op = "extentToBounds" =>
    /\ ret.isNull <=> SomeNaN(arg.v)
    /\ ~ret.isNull =>
         /\ {ret.bounds.sw.lat, ret.bounds.ne.lat} = {arg.v.ymin.n, arg.v.ymax.n}
         /\ {ret.bounds.sw.lng, ret.bounds.ne.lng} = {arg.v.xmin.n, arg.v.xmax.n}
         /\ ret.bounds.sw.lat <= ret.bounds.ne.lat
         /\ ret.bounds.sw.lng <= ret.bounds.ne.lng

C1_Witness ==
  /\ op = "extentToBounds"
  /\ SomeNaN(arg.v) /\ ~AllNaN(arg.v)
  /\ ret.isNull

\* C9: for every bounds B, extentToBounds(boundsToExtent(B)) has the same
\* south-west and north-east corners as B, and boundsToExtent(B) carries
\* spatial reference wkid 4326.
C9_RoundTrip ==
  /\ op = "boundsToExtent" => ret.spatialReference.wkid = 4326
  /\ op = "roundTrip" =>
       /\ ~ret.isNull
       /\ ret.bounds.sw = arg.v.sw
       /\ ret.bounds.ne = arg.v.ne

C9_Witness ==
  /\ op = "roundTrip"
  /\ arg.v.sw.lat < arg.v.ne.lat
  /\ arg.v.sw.lng < arg.v.ne.lng
  /\ arg.v.sw.lat # arg.v.sw.lng
  /\ ~ret.isNull

\* ------------------------------------------------------------- cleanUrl
Whitespace == {" ", "\t"}
UrlChars == Whitespace \cup {"/", "x"}
UrlInputs == SeqsUpTo(UrlChars, MaxUrlLen)

RECURSIVE trimStart(_)
trimStart(s) ==
  IF s # <<>> /\ Head(s) \in Whitespace THEN trimStart(Tail(s)) ELSE s

RECURSIVE trimEnd(_)
trimEnd(s) ==
  IF s # <<>> /\ s[Len(s)] \in Whitespace THEN trimEnd(SubSeq(s, 1, Len(s) - 1)) ELSE s

\* Util.trim(str): String.prototype.trim, or the replace of /^\s+|\s+$/g
trim(s) == trimEnd(trimStart(s))

cleanUrlAlwaysAppends(url) == trim(url) \o <<"/">>

cleanUrl(url) ==
  LET trimmed == trim(url)
  IN \* url[url.length - 1] is undefined for the empty string
     IF trimmed = <<>> \/ trimmed[Len(trimmed)] # "/"
     THEN trimmed \o <<"/">>
     ELSE trimmed

InitUrl ==
  /\ op = "none"
  /\ arg \in UrlInputs
  /\ ret = NotCalled
  /\ warnings = 0
  /\ AttrIdle
  /\ DomIdle

CallCleanUrl ==
  /\ op = "none"
  /\ ret' = cleanUrl(arg)
  /\ op' = "cleanUrl"
  /\ UNCHANGED <<arg, warnings, attrVars, domVars>>

\* cleanUrl applied to its own result
CallCleanUrlAgain ==
  /\ op = "cleanUrl"
  /\ arg' = ret
  /\ ret' = cleanUrl(ret)
  /\ op' = "cleanUrlAgain"
  /\ UNCHANGED <<warnings, attrVars, domVars>>

NextUrl == CallCleanUrl \/ CallCleanUrlAgain
SpecUrl == InitUrl /\ [][NextUrl]_vars

RECURSIVE TrailingSlashes(_)
TrailingSlashes(s) ==
  IF s # <<>> /\ s[Len(s)] = "/" THEN 1 + TrailingSlashes(SubSeq(s, 1, Len(s) - 1)) ELSE 0

\* the input without the whitespace at its two ends
Core(s) ==
  IF \A i \in 1..Len(s) : s[i] \in Whitespace THEN <<>>
  ELSE LET first == CHOOSE i \in 1..Len(s) :
                      s[i] \notin Whitespace /\ \A j \in 1..(i - 1) : s[j] \in Whitespace
           last == CHOOSE i \in 1..Len(s) :
                      s[i] \notin Whitespace /\ \A j \in (i + 1)..Len(s) : s[j] \in Whitespace
       IN SubSeq(s, first, last)

NoOuterWhitespace(s) ==
  s # <<>> => (s[1] \notin Whitespace /\ s[Len(s)] \notin Whitespace)

\* C2 as stated: cleanUrl(url) has no leading or trailing whitespace and ends
\* with exactly one '/', whatever number of trailing slashes the input had.
C2_ExactlyOneSlash ==
  op = "cleanUrl" => (NoOuterWhitespace(ret) /\ TrailingSlashes(ret) = 1)

\* C2 amended: cleanUrl(url) has no leading or trailing whitespace and ends
\* with at least one '/': it is the trimmed input, with one '/' appended only
\* when the trimmed input does not end with '/'.  It ends with exactly one '/'
\* when the trimmed input has at most one trailing '/', and keeps every
\* trailing '/' of an input that has two or more.
C2_AtLeastOneSlash ==
  op = "cleanUrl" =>
    /\ NoOuterWhitespace(ret)
    /\ TrailingSlashes(ret) = Max(1, TrailingSlashes(Core(arg)))
    /\ ret = IF TrailingSlashes(Core(arg)) = 0 THEN Core(arg) \o <<"/">> ELSE Core(arg)

C2_Witness ==
  /\ op = "cleanUrl"
  /\ arg # <<>>
  /\ arg[Len(arg)] \in Whitespace
  /\ TrailingSlashes(Core(arg)) = 2
  /\ TrailingSlashes(ret) = 2

\* ------------------------------------------------- id-field resolution
\* String.prototype.toUpperCase on the letters that field names here use; the
\* /i flag of knownFieldNames compares characters up to case.
UpperChar(c) ==
  CASE c = "b" -> "B" [] c = "c" -> "C" [] c = "d" -> "D" [] c = "e" -> "E"
    [] c = "f" -> "F" [] c = "i" -> "I" [] c = "j" -> "J" [] c = "o" -> "O"
    [] c = "t" -> "T" [] c = "x" -> "X" [] OTHER -> c

Upper(s) == [i \in 1..Len(s) |-> UpperChar(s[i])]

KnownNames ==
  { <<"O", "B", "J", "E", "C", "T", "I", "D">>, <<"F", "I", "D">>,
    <<"O", "I", "D">>, <<"I", "D">> }

\* name.match(/^(OBJECTID|FID|OID|ID)$/i) is not null
knownFieldNames(name) == Upper(name) \in KnownNames

FieldNames ==
  { <<"O", "B", "J", "E", "C", "T", "I", "D">>, <<"f", "i", "d">>,
    <<"O", "i", "d">>, <<"I", "D">>, <<"I", "D", "X">>, <<"X", "I", "D">> }
FieldTypes == {"esriFieldTypeOID", "esriFieldTypeString"}
Fields == [name : FieldNames, type : FieldTypes]
FieldLists == SeqsUpTo(Fields, MaxFields)
NoList == [def |-> FALSE, list |-> <<>>]
List(l) == [def |-> TRUE, list |-> l]
IdFieldNames == {Undefined, Str(<<"k", "e", "y">>)}

RECURSIVE firstOfType(_, _)
\* the loop of lines 55-60, from index j
firstOfType(fields, j) ==
  IF j > Len(fields) THEN Undefined
  ELSE IF fields[j].type = "esriFieldTypeOID" THEN Str(fields[j].name)
  ELSE firstOfType(fields, j + 1)

RECURSIVE firstKnownName(_, _)
\* the loop of lines 63-68, from index j
firstKnownName(fields, j) ==
  IF j > Len(fields) THEN Undefined
  ELSE IF knownFieldNames(fields[j].name) THEN Str(fields[j].name)
  ELSE firstKnownName(fields, j + 1)

\* a JavaScript string or undefined, as a condition
Truthy(v) == v.def /\ v.s # <<>>

findIdNamesBeforeTypes(response) ==
  IF Truthy(response.objectIdFieldName) THEN response.objectIdFieldName
  ELSE IF response.fields.def
  THEN LET result == firstKnownName(response.fields.list, 1)
       IN IF ~Truthy(result) THEN firstOfType(response.fields.list, 1) ELSE result
  ELSE Undefined

_findIdAttributeFromResponse(response) ==
  IF Truthy(response.objectIdFieldName) THEN response.objectIdFieldName
  ELSE IF response.fields.def
  THEN LET result == firstOfType(response.fields.list, 1)
       IN IF ~Truthy(result) THEN firstKnownName(response.fields.list, 1) ELSE result
  ELSE Undefined

IdResponses ==
  [objectIdFieldName : IdFieldNames,
   fields : {NoList} \cup {List(l) : l \in FieldLists}]

InitId ==
  /\ op = "none"
  /\ arg \in IdResponses
  /\ ret = NotCalled
  /\ warnings = 0
  /\ AttrIdle
  /\ DomIdle

CallFindIdAttributeFromResponse ==
  /\ op = "none"
  /\ ret' = _findIdAttributeFromResponse(arg)
  /\ op' = "_findIdAttributeFromResponse"
  /\ UNCHANGED <<arg, warnings, attrVars, domVars>>

NextId == CallFindIdAttributeFromResponse
SpecId == InitId /\ [][NextId]_vars

OidIndexes(fields) == {j \in 1..Len(fields) : fields[j].type = "esriFieldTypeOID"}
ConventionalIndexes(fields) ==
  {j \in 1..Len(fields) :
     \E n \in KnownNames : Len(n) = Len(fields[j].name)
                           /\ \A k \in 1..Len(n) : UpperChar(fields[j].name[k]) = n[k]}
Least(S) == CHOOSE j \in S : \A k \in S : j <= k

\* C3: _findIdAttributeFromResponse returns objectIdFieldName when it is set,
\* whatever the fields are; otherwise the name of the first field of type
\* esriFieldTypeOID, even after a field with a conventional name; otherwise
\* the name of the first field whose whole name is OBJECTID, FID, OID or ID
\* up to case; otherwise undefined, as it is without objectIdFieldName and
\* fields.
C3_FirstMatchWins ==
  op = "_findIdAttributeFromResponse" =>
    LET fields == arg.fields.list
    IN IF arg.objectIdFieldName.def THEN ret = arg.objectIdFieldName
       ELSE IF ~arg.fields.def THEN ret = Undefined
       ELSE IF OidIndexes(fields) # {}
            THEN ret = Str(fields[Least(OidIndexes(fields))].name)
       ELSE IF ConventionalIndexes(fields) # {}
            THEN ret = Str(fields[Least(ConventionalIndexes(fields))].name)
       ELSE ret = Undefined

\* an OID-typed field wins over a conventionally named field before it
C3_Witness ==
  /\ op = "_findIdAttributeFromResponse"
  /\ ~arg.objectIdFieldName.def
  /\ arg.fields.def
  /\ Len(arg.fields.list) = 2
  /\ knownFieldNames(arg.fields.list[1].name)
  /\ arg.fields.list[1].type # "esriFieldTypeOID"
  /\ arg.fields.list[2].type = "esriFieldTypeOID"
  /\ ret = Str(arg.fields.list[2].name)

\* ------------------------------------------- responseToFeatureCollection
\* A raw feature is its attribute keys in the object's own (insertion) order;
\* keys of one object are distinct.
FeatureKeys == { <<"i", "d">>, <<"I", "D", "X">>, <<"F", "I", "D">> }
KeyLists ==
  {l \in SeqsUpTo(FeatureKeys, MaxKeys) :
     \A i \in 1..Len(l), j \in 1..Len(l) : i # j => l[i] # l[j]}
RawFeatures == [attributes : KeyLists]
RawFeatureLists == SeqsUpTo(RawFeatures, MaxFeatures)

RECURSIVE firstKnownKey(_, _)
\* the for-in loop of lines 76-80, from the k-th key
firstKnownKey(keys, k) ==
  IF k > Len(keys) THEN Undefined
  ELSE IF knownFieldNames(keys[k]) THEN Str(keys[k])
  ELSE firstKnownKey(keys, k + 1)

_findIdAttributeFromFeature(feature) == firstKnownKey(feature.attributes, 1)

\* arcgisToGeoJSON(arcgis, idAttr) hands both to the converter of
\* @esri/arcgis-to-geojson-utils; the model keeps what the converter was given.
arcgisToGeoJSON(arcgis, idAttr) ==
  [type |-> "Feature", properties |-> arcgis.attributes, idAttribute |-> idAttr]

\* a || b on strings-or-undefined
OrElse(a, b) == IF Truthy(a) THEN a ELSE b

RECURSIVE convertForward(_, _, _)
convertForward(features, i, objectIdField) ==
  IF i > Len(features) THEN <<>>
  ELSE <<arcgisToGeoJSON(features[i],
             OrElse(objectIdField, _findIdAttributeFromFeature(features[i])))>>
       \o convertForward(features, i + 1, objectIdField)

RECURSIVE convertFrom(_, _, _)
\* the loop of lines 100-103 from index i down to the first feature
convertFrom(features, i, objectIdField) ==
  IF i < 1 THEN <<>>
  ELSE <<arcgisToGeoJSON(features[i],
             OrElse(objectIdField, _findIdAttributeFromFeature(features[i])))>>
       \o convertFrom(features, i - 1, objectIdField)

convertAllForward(features, objectIdField) ==
  convertForward(features, 1, objectIdField)

convertAll(features, objectIdField) ==
  convertFrom(features, Len(features), objectIdField)

responseToFeatureCollection(response, idAttribute) ==
  LET features == IF response.features.def THEN response.features.list
                  ELSE response.results.list
      count == Len(features)
      objectIdField == IF Truthy(idAttribute) THEN idAttribute
                       ELSE _findIdAttributeFromResponse(response)
  IN [type |-> "FeatureCollection",
      features |-> IF count # 0 THEN convertAll(features, objectIdField) ELSE <<>>]

FcFieldLists ==
  { NoList,
    List(<<[name |-> <<"X", "I", "D">>, type |-> "esriFieldTypeOID"]>>),
    List(<<[name |-> <<"f", "i", "d">>, type |-> "esriFieldTypeString"]>>),
    List(<<[name |-> <<"I", "D", "X">>, type |-> "esriFieldTypeString"]>>) }
FcIdAttributes == {Undefined, Str(<<"g", "i", "d">>)}

\* the feature list sits under "features" or under "results"
FcResponses ==
  [objectIdFieldName : IdFieldNames, fields : FcFieldLists,
   features : {List(l) : l \in RawFeatureLists}, results : {NoList}]
  \cup
  [objectIdFieldName : IdFieldNames, fields : FcFieldLists,
   features : {NoList}, results : {List(l) : l \in RawFeatureLists}]

InitFc ==
  /\ op = "none"
  /\ arg \in [response : FcResponses, idAttribute : FcIdAttributes]
  /\ ret = NotCalled
  /\ warnings = 0
  /\ AttrIdle
  /\ DomIdle

CallResponseToFeatureCollection ==
  /\ op = "none"
  /\ ret' = responseToFeatureCollection(arg.response, arg.idAttribute)
  /\ op' = "responseToFeatureCollection"
  /\ UNCHANGED <<arg, warnings, attrVars, domVars>>

NextFc == CallResponseToFeatureCollection
SpecFc == InitFc /\ [][NextFc]_vars

RawList(response) ==
  IF response.features.def THEN response.features.list ELSE response.results.list

KnownKeyIndexes(keys) == {k \in 1..Len(keys) : Upper(keys[k]) \in KnownNames}

\* the identifier attribute C4 names for one raw feature
ChosenId(response, idAttribute, raw) ==
  IF idAttribute.def THEN idAttribute
  ELSE IF _findIdAttributeFromResponse(response).def
  THEN _findIdAttributeFromResponse(response)
  ELSE IF KnownKeyIndexes(raw.attributes) # {}
  THEN Str(raw.attributes[Least(KnownKeyIndexes(raw.attributes))])
  ELSE Undefined

\* C4: responseToFeatureCollection on a response whose feature list
\* (features, or results when features is absent) has N entries returns a
\* FeatureCollection of exactly N features; output feature i converts raw
\* feature N-1-i, with the identifier attribute being the idAttribute argument
\* if given, else what _findIdAttributeFromResponse finds, else the first
\* conventionally named attribute key of that raw feature; a feature without
\* any identifier is still produced.
C4_ReversedWithIds ==
  op = "responseToFeatureCollection" =>
    LET raw == RawList(arg.response)
        N == Len(raw)
    IN /\ ret.type = "FeatureCollection"
       /\ Len(ret.features) = N
       /\ \A i \in 1..N :
            /\ ret.features[i].type = "Feature"
            /\ ret.features[i].properties = raw[N + 1 - i].attributes
            /\ ret.features[i].idAttribute =
                 ChosenId(arg.response, arg.idAttribute, raw[N + 1 - i])

\* two different raw features come out reversed, one with an identifier found
\* among its own keys and one without any
C4_Witness ==
  /\ op = "responseToFeatureCollection"
  /\ ~arg.idAttribute.def
  /\ ~arg.response.features.def
  /\ Len(arg.response.results.list) = 2
  /\ Len(ret.features) = 2
  /\ ret.features[1].properties # ret.features[2].properties
  /\ ret.features[1].properties = arg.response.results.list[2].attributes
  /\ ret.features[1].idAttribute = Str(<<"i", "d">>)
  /\ ret.features[2].idAttribute = Undefined

\* ------------------------------------------------------------ _setGeometry
\* The argument is a Leaflet object (class LatLngBounds, LatLng, Marker,
\* GeoJSON or Path, the vector layers Polyline and Polygon) or a plain GeoJSON
\* object (class Object, with its type).
Positions == {<<x, y>> : x \in Coords, y \in {0}}
LatLngs == {latLng(p[2], p[1]) : p \in Positions}
GeometryTypes ==
  {"Point", "MultiPoint", "LineString", "MultiLineString", "Polygon",
   "MultiPolygon", "GeometryCollection"}
Geometries ==
  {[class |-> "Object", type |-> t, coordinates |-> c] : t \in GeometryTypes, c \in Positions}
FeatureObjects ==
  {[class |-> "Object", type |-> "Feature", geometry |-> g] : g \in Geometries}
OtherObjects == {[class |-> "Object", type |-> "FeatureCollection"]}
\* what a Polyline or a Polygon layer's toGeoJSON() can return
PathTypes == {"LineString", "MultiLineString", "Polygon", "MultiPolygon"}
GeometryInputs ==
  {[class |-> "LatLngBounds", bounds |-> b] : b \in BoundsInputs}
  \cup {[class |-> "LatLng", latlng |-> l] : l \in LatLngs}
  \cup {[class |-> "Marker", latlng |-> l] : l \in LatLngs}
  \cup {[class |-> "GeoJSON", first |-> g] : g \in Geometries}
  \cup {[class |-> "Path", feature |-> f] :
          f \in {x \in FeatureObjects : x.geometry.type \in PathTypes}}
  \cup Geometries \cup FeatureObjects \cup OtherObjects

JsNull == [tag |-> "null"]
JsUndefined == [tag |-> "undefined"]
Value(v) == [tag |-> "value", v |-> v]

\* geojsonToArcGIS(geojson) hands the geometry to the converter of
\* @esri/arcgis-to-geojson-utils; the model keeps what the converter was given.
geojsonToArcGIS(geojson) ==
  Value([from |-> geojson.type, coordinates |-> geojson.coordinates,
         spatialReference |-> [wkid |-> WKID]])

geojsonTypeToArcGIS(geoJsonType) ==
  CASE geoJsonType = "Point" -> Value("esriGeometryPoint")
    [] geoJsonType = "MultiPoint" -> Value("esriGeometryMultipoint")
    [] geoJsonType = "LineString" -> Value("esriGeometryPolyline")
    [] geoJsonType = "MultiLineString" -> Value("esriGeometryPolyline")
    [] geoJsonType = "Polygon" -> Value("esriGeometryPolygon")
    [] geoJsonType = "MultiPolygon" -> Value("esriGeometryPolygon")
    [] OTHER -> JsUndefined

\* the properties the cascade probes
hasGetLatLng(g) == g.class = "Marker"
hasToGeoJSON(g) == g.class \in {"Marker", "GeoJSON", "Path"}
toGeoJSON(g) == g.feature
typeOf(g) == IF g.class = "Object" THEN g.type ELSE "undefined"

acceptedTypesWithMultiPoint(t) ==
  t \in {"Point", "MultiPoint", "LineString", "Polygon", "MultiPolygon"}

\* the condition of line 264
acceptedType(t) == t \in {"Point", "LineString", "Polygon", "MultiPolygon"}

\* the result of _setGeometry and the number of warnings it emits
_setGeometry(geometry) ==
  IF geometry.class = "LatLngBounds"
  THEN [ret |-> Value([geometry |-> Value(boundsToExtent(geometry.bounds)),
                       geometryType |-> Value("esriGeometryEnvelope")]),
        warned |-> 0]
  ELSE
    LET g1 == IF hasGetLatLng(geometry)
              THEN [class |-> "LatLng", latlng |-> geometry.latlng]
              ELSE geometry
        g2 == IF g1.class = "LatLng"
              THEN [class |-> "Object", type |-> "Point",
                    coordinates |-> <<g1.latlng.lng, g1.latlng.lat>>]
              ELSE g1
        wasLayer == g2.class = "GeoJSON"
        g3 == IF wasLayer THEN g2.first ELSE g2
        p3 == IF wasLayer
              THEN [geometry |-> geojsonToArcGIS(g3),
                    geometryType |-> geojsonTypeToArcGIS(typeOf(g3))]
              ELSE [geometry |-> JsNull, geometryType |-> JsNull]
        g4 == IF hasToGeoJSON(g3) THEN toGeoJSON(g3) ELSE g3
        g5 == IF typeOf(g4) = "Feature" THEN g4.geometry ELSE g4
    IN IF acceptedType(typeOf(g5))
       THEN [ret |-> Value([geometry |-> geojsonToArcGIS(g5),
                            geometryType |-> geojsonTypeToArcGIS(typeOf(g5))]),
             warned |-> 0]
       ELSE [ret |-> JsUndefined, warned |-> 1]

InitGeometry ==
  /\ op = "none"
  /\ arg \in GeometryInputs
  /\ ret = NotCalled
  /\ warnings = 0
  /\ AttrIdle
  /\ DomIdle

CallSetGeometry ==
  /\ op = "none"
  /\ ret' = _setGeometry(arg).ret
  /\ warnings' = warnings + _setGeometry(arg).warned
  /\ op' = "_setGeometry"
  /\ UNCHANGED <<arg, attrVars, domVars>>

NextGeometry == CallSetGeometry
SpecGeometry == InitGeometry /\ [][NextGeometry]_vars

\* the type of the geometry an input stands for
ResolvedType(g) ==
  CASE g.class \in {"LatLng", "Marker"} -> "Point"
    [] g.class = "GeoJSON" -> g.first.type
    [] g.class = "Path" -> g.feature.geometry.type
    [] g.class = "Object" /\ g.type = "Feature" -> g.geometry.type
    [] OTHER -> g.type

Unrecognized(g) ==
  /\ g.class # "LatLngBounds"
  /\ ResolvedType(g) \notin {"Point", "LineString", "Polygon", "MultiPolygon"}

ExpectedGeometryType(g) ==
  CASE g.class = "LatLngBounds" -> "esriGeometryEnvelope"
    [] ResolvedType(g) = "Point" -> "esriGeometryPoint"
    [] ResolvedType(g) = "LineString" -> "esriGeometryPolyline"
    [] OTHER -> "esriGeometryPolygon"

AttributionWidthOffset == 55
MapWidths == {300, 400}

\* calcAttributionWidth(map), in px
calcAttributionWidth(width) == Px(width - AttributionWidthOffset)

HoverStyle == [rule |-> ".esri-truncated-attribution:hover"]
TruncateStyle(w) == [rule |-> ".esri-truncated-attribution", maxWidth |-> w]

\* the sequence without its element at (0-based) index i
RemoveItem(nodeList, i) ==
  SubSeq(nodeList, 1, i) \o SubSeq(nodeList, i + 2, Len(nodeList))

RECURSIVE removeScripts(_, _)
\* the loop of lines 208-210 from index i: getElementsByClassName returns a
\* live collection, which loses each element as remove() takes it out of the
\* document
removeScripts(nodeList, i) ==
  IF i < Len(nodeList) THEN removeScripts(RemoveItem(nodeList, i), i + 1)
  ELSE nodeList

InitDom ==
  /\ PureIdle
  /\ attributionControl \in BOOLEAN
  /\ esriAttributions = NoAttributions
  /\ attributionHTML = <<>>
  /\ elementMaxWidth = Unset
  /\ eventsFired = 0
  /\ lastEvent = <<>>
  /\ view = HomeView
  /\ mapWidth \in MapWidths
  /\ pending = 0
  /\ lastStep = "init"
  /\ DomIdle

SetEsriAttribution ==
  /\ ~mapRemoved
  /\ IF attributionControl /\ ~esriAttributionAdded
     THEN /\ prefix' = "Leaflet | Powered by Esri"
          /\ styles' = styles \cup {HoverStyle, TruncateStyle(calcAttributionWidth(mapWidth))}
          /\ containerClasses' = containerClasses
                \cup {"esri-truncated-attribution:hover", "esri-truncated-attribution"}
          /\ listeners' = listeners \cup {"resize", "unload"}
          /\ esriAttributionAdded' = TRUE
     ELSE UNCHANGED <<prefix, styles, containerClasses, listeners, esriAttributionAdded>>
  /\ lastStep' = "setEsriAttribution"
  /\ UNCHANGED <<pureVars, attributionControl, esriAttributions, attributionHTML,
                 elementMaxWidth, eventsFired, lastEvent, view, mapWidth, pending,
                 containerMaxWidth, mapRemoved, scripts, nextScriptId>>

\* the map's 'resize' event
Resize ==
  /\ ~mapRemoved
  /\ \E w \in MapWidths :
       /\ w # mapWidth
       /\ mapWidth' = w
       /\ containerMaxWidth' = IF "resize" \in listeners THEN calcAttributionWidth(w)
                               ELSE containerMaxWidth
  /\ lastStep' = "resize"
  /\ UNCHANGED <<pureVars, attributionControl, esriAttributions, attributionHTML,
                 elementMaxWidth, eventsFired, lastEvent, view, pending,
                 esriAttributionAdded, styles, containerClasses, prefix, listeners,
                 mapRemoved, scripts, nextScriptId>>

\* jsonp(url, params, callback): the request appends a script element of class
\* esri-leaflet-jsonp-script to the document and leaves it there
jsonp(nodeList, id) == Append(nodeList, id)

\* the map's 'unload' event, fired once, when the map is removed
Unload ==
  /\ ~mapRemoved
  /\ mapRemoved' = TRUE
  /\ IF "unload" \in listeners
     THEN /\ styles' = {}
          /\ scripts' = removeScripts(scripts, 0)
     ELSE UNCHANGED <<styles, scripts>>
  /\ lastStep' = "unload"
  /\ UNCHANGED <<pureVars, attributionControl, esriAttributions, attributionHTML,
                 elementMaxWidth, eventsFired, lastEvent, view, mapWidth, pending,
                 esriAttributionAdded, containerClasses, containerMaxWidth, prefix,
                 listeners, nextScriptId>>

\* C7: once setEsriAttribution is installed on a map, the map's 'unload'
\* event removes both injected style elements and every element of class
\* esri-leaflet-jsonp-script present at that moment, so that none remains,
\* however many there were.
C7_UnloadPurgesAll ==
  (lastStep = "unload" /\ esriAttributionAdded) => (styles = {} /\ scripts = <<>>)

\* --------------------------------------- the dynamic attribution text
\* Attribution labels.  The parentheses are the only characters of these
\* labels that a regular expression reads as syntax, and they are balanced.
Labels == { <<"a">>, <<"a", "b">>, <<"(", "a", ")", "b">> }
Scores == {1, 2}
Zooms == 0..MaxZoom
\* bbox is [south, west, north, east]
SmallBox == <<0, 0, 10, 10>>
WorldBox == <<0 - 90, 0 - 180, 90, 180>>
CoverageAreas ==
  {[bbox |-> SmallBox, score |-> sc, zoomMin |-> 0, zoomMax |-> 0] : sc \in Scores}
  \cup {[bbox |-> WorldBox, score |-> sc, zoomMin |-> 0, zoomMax |-> MaxZoom] : sc \in Scores}
ViewBounds ==
  { latLngBounds(latLng(1, 1), latLng(2, 2)),
    latLngBounds(latLng(1, 361), latLng(2, 362)),
    latLngBounds(latLng(20, 20), latLng(30, 30)) }
Views == [bounds : ViewBounds, zoom : Zooms]

NonEmptySeqsUpTo(S, n) == SeqsUpTo(S, n) \ {<<>>}

RECURSIVE ContributorLists(_, _, _, _)
\* the lists of at most n contributors with at most r coverage areas in all,
\* every contributor having between one and MaxAreas of them
ContributorLists(L, A, n, r) ==
  IF n = 0 \/ r = 0 THEN {<<>>}
  ELSE {<<>>} \cup
       UNION {{<<[attribution |-> l, coverageAreas |-> areas]>> \o rest :
                 l \in L, rest \in ContributorLists(L, A, n - 1, r - Len(areas))} :
              areas \in NonEmptySeqsUpTo(A, Min(MaxAreas, r))}

\* the lookup's answers whose labels come from L and coverage areas from A
Payloads(L, A) ==
  {[contributors |-> c] : c \in ContributorLists(L, A, MaxContributors, MaxRecords)}

AttributionPayloads == Payloads(Labels, CoverageAreas)
LookupPayloads ==
  Payloads({<<"a">>}, {a \in CoverageAreas : a.bbox = WorldBox})

\* lines 283-294: the records of one contributor
RECURSIVE recordsOf(_, _)
recordsOf(contributor, i) ==
  IF i > Len(contributor.coverageAreas) THEN <<>>
  ELSE LET coverageArea == contributor.coverageAreas[i]
           southWest == latLng(coverageArea.bbox[1], coverageArea.bbox[2])
           northEast == latLng(coverageArea.bbox[3], coverageArea.bbox[4])
       IN <<[attribution |-> contributor.attribution,
             score |-> coverageArea.score,
             bounds |-> latLngBounds(southWest, northEast),
             minZoom |-> coverageArea.zoomMin,
             maxZoom |-> coverageArea.zoomMax]>>
          \o recordsOf(contributor, i + 1)

\* lines 280-295: the records of all contributors
RECURSIVE allRecords(_, _)
allRecords(contributors, c) ==
  IF c > Len(contributors) THEN <<>>
  ELSE recordsOf(contributors[c], 1) \o allRecords(contributors, c + 1)

\* r put into a list already sorted by descending score, after the records
\* that do not compare greater than it
RECURSIVE insertByScore(_, _)
insertByScore(sorted, r) ==
  IF sorted = <<>> THEN <<r>>
  ELSE IF Head(sorted).score - r.score >= 0
  THEN <<Head(sorted)>> \o insertByScore(Tail(sorted), r)
  ELSE <<r>> \o sorted

RECURSIVE sortedFrom(_, _)
sortedFrom(list, i) ==
  IF i = 0 THEN <<>> ELSE insertByScore(sortedFrom(list, i - 1), list[i])

\* lines 297-299: Array.prototype.sort with (a, b) => b.score - a.score; the
\* sort is stable
sortByScore(list) == sortedFrom(list, Len(list))

\* LatLng.wrap(): the longitude brought into [-180, 180], 180 itself kept
wrap(ll) ==
  latLng(ll.lat, IF ll.lng = 180 THEN 180 ELSE ((ll.lng + 180) % 360) - 180)

\* LatLngBounds.intersects
intersects(b1, b2) ==
  /\ b2.ne.lat >= b1.sw.lat /\ b2.sw.lat <= b1.ne.lat
  /\ b2.ne.lng >= b1.sw.lng /\ b2.sw.lng <= b1.ne.lng

\* the pattern new RegExp(text) compiles for a text whose only syntax
\* characters are balanced parentheses: groups around plain characters
RegExpBody(text) == SelectSeq(text, LAMBDA ch : ch \notin {"(", ")"})

Occurs(needle, str) ==
  \E i \in 1..(Len(str) + 1) :
    /\ i + Len(needle) - 1 <= Len(str)
    /\ SubSeq(str, i, i + Len(needle) - 1) = needle

\* str.match(text) is not null: text is compiled as a regular expression
match(str, text) == Occurs(RegExpBody(text), str)

RECURSIVE appendAttributions(_, _, _, _, _)
\* the loop of lines 320-327, from the i-th record
appendAttributions(oldAttributions, i, newAttributions, wrappedBounds, zoom) ==
  IF i > Len(oldAttributions) THEN newAttributions
  ELSE LET attribution == oldAttributions[i]
           text == attribution.attribution
       IN appendAttributions(oldAttributions, i + 1,
            IF /\ ~match(newAttributions, text)
               /\ intersects(attribution.bounds, wrappedBounds)
               /\ zoom >= attribution.minZoom
               /\ zoom <= attribution.maxZoom
            THEN newAttributions \o <<",", " ">> \o text
            ELSE newAttributions,
            wrappedBounds, zoom)

\* String.prototype.substr(2)
substr2(str) == SubSeq(str, 3, Len(str))

\* lines 312-329: the text _updateMapAttribution computes
newAttributionText(oldAttributions, v) ==
  LET wrappedBounds == latLngBounds(wrap(v.bounds.sw), wrap(v.bounds.ne))
  IN substr2(appendAttributions(oldAttributions, 1, <<>>, wrappedBounds, v.zoom))

\* _updateMapAttribution on a map whose list and view are now attrs and v
UpdateMapAttribution(attrs, v) ==
  IF attributionControl /\ attrs.def
  THEN /\ attributionHTML' = newAttributionText(attrs.list, v)
       /\ elementMaxWidth' = calcAttributionWidth(mapWidth)
       /\ eventsFired' = eventsFired + 1
       /\ lastEvent' = newAttributionText(attrs.list, v)
  ELSE UNCHANGED <<attributionHTML, elementMaxWidth, eventsFired, lastEvent>>

InitAttribution ==
  /\ PureIdle
  /\ attributionControl \in BOOLEAN
  /\ esriAttributions = NoAttributions
  /\ attributionHTML = <<>>
  /\ elementMaxWidth = Unset
  /\ eventsFired = 0
  /\ lastEvent = <<>>
  /\ view \in Views
  /\ mapWidth \in {300}
  /\ pending = 0
  /\ lastStep = "init"
  /\ DomIdle

\* _getAttributionData(url, map): the jsonp request is sent
GetAttributionData ==
  /\ pending < MaxPending
  /\ nextScriptId <= MaxScripts
  /\ pending' = pending + 1
  /\ scripts' = jsonp(scripts, nextScriptId)
  /\ nextScriptId' = nextScriptId + 1
  /\ lastStep' = "request"
  /\ UNCHANGED <<pureVars, attributionControl, esriAttributions, attributionHTML,
                 elementMaxWidth, eventsFired, lastEvent, view, mapWidth,
                 esriAttributionAdded, styles, containerClasses, containerMaxWidth,
                 prefix, listeners, mapRemoved>>

errorCallbackClears(attrs) == [def |-> TRUE, list |-> <<>>]

\* what the callback leaves in map._esriAttributions when error is set
errorCallback(attrs) == attrs

\* the callback of lines 277-304 is called with an error
AttributionError ==
  /\ pending > 0
  /\ pending' = pending - 1
  /\ esriAttributions' = errorCallback(esriAttributions)
  /\ lastStep' = "error"
  /\ UNCHANGED <<pureVars, attributionControl, attributionHTML, elementMaxWidth,
                 eventsFired, lastEvent, view, mapWidth, domVars>>

\* the callback of lines 277-304 is called with the lookup's answer
AttributionLoaded(payloads) ==
  /\ pending > 0
  /\ eventsFired < MaxEvents
  /\ \E attributions \in payloads :
       LET list == [def |-> TRUE,
                    list |-> sortByScore(allRecords(attributions.contributors, 1))]
       IN /\ esriAttributions' = list
          /\ UpdateMapAttribution(list, view)
  /\ pending' = pending - 1
  /\ lastStep' = "loaded"
  /\ UNCHANGED <<pureVars, attributionControl, view, mapWidth, domVars>>

\* the map's 'moveend' event, which calls _updateMapAttribution
MoveEnd ==
  /\ eventsFired < MaxEvents
  /\ \E v \in Views :
       /\ v # view
       /\ view' = v
       /\ UpdateMapAttribution(esriAttributions, v)
  /\ lastStep' = "moveend"
  /\ UNCHANGED <<pureVars, attributionControl, esriAttributions, mapWidth, pending,
                 domVars>>

NextAttribution ==
  GetAttributionData \/ AttributionError \/ AttributionLoaded(AttributionPayloads) \/ MoveEnd
SpecAttribution == InitAttribution /\ [][NextAttribution]_vars

NextLookup ==
  GetAttributionData \/ AttributionError \/ AttributionLoaded(LookupPayloads) \/ MoveEnd
SpecLookup == InitAttribution /\ [][NextLookup]_vars

NextDom ==
  SetEsriAttribution \/ Resize \/ GetAttributionData \/ AttributionError \/ Unload
SpecDom == InitDom /\ [][NextDom]_vars

\* C6: when the lookup's callback is called with an error, _esriAttributions
\* stays exactly as it was (undefined if it was never set), the attribution
\* element is not rewritten and no 'attributionupdated' event is fired,
\* whatever lookups succeeded or failed before.
C6_ErrorLeavesStateUntouched ==
  [][lastStep' = "error" =>
       /\ esriAttributions' = esriAttributions
       /\ attributionHTML' = attributionHTML
       /\ elementMaxWidth' = elementMaxWidth
       /\ eventsFired' = eventsFired
       /\ lastEvent' = lastEvent]_vars

\* a lookup failed after another one had filled the list and the element
C6_Witness ==
  /\ lastStep = "error"
  /\ esriAttributions.def
  /\ Len(esriAttributions.list) = 2
  /\ attributionHTML = <<"a">>
  /\ eventsFired = 1

\* the comma-separated entries of an attribution text
RECURSIVE Entries(_)
Entries(str) ==
  IF str = <<>> THEN <<>>
  ELSE LET commas == {k \in 1..Len(str) : str[k] = ","}
           k == IF commas = {} THEN Len(str) + 1 ELSE Least(commas)
       IN <<SubSeq(str, 1, k - 1)>> \o Entries(SubSeq(str, k + 2, Len(str)))

Shown == attributionControl /\ esriAttributions.def

Qualifies(r, v) ==
  LET w == latLngBounds(wrap(v.bounds.sw), wrap(v.bounds.ne))
  IN /\ r.bounds.sw.lat <= w.ne.lat /\ w.sw.lat <= r.bounds.ne.lat
     /\ r.bounds.sw.lng <= w.ne.lng /\ w.sw.lng <= r.bounds.ne.lng
     /\ r.minZoom <= v.zoom /\ v.zoom <= r.maxZoom

\* C8: the attribution text written to the element, which is the one the
\* 'attributionupdated' event carries, holds no label twice; two qualifying
\* records with the same text put that text into it once.
C8_NoLabelTwice ==
  Shown =>
    /\ lastEvent = attributionHTML
    /\ \A i \in 1..Len(Entries(attributionHTML)), j \in 1..Len(Entries(attributionHTML)) :
         i # j => Entries(attributionHTML)[i] # Entries(attributionHTML)[j]

QualifyingIndexes == {i \in 1..Len(esriAttributions.list) :
                        Qualifies(esriAttributions.list[i], view)}

\* C10: the label of every record that intersects the wrapped view bounds
\* and covers the zoom is one of the entries of the text, the entries being
\* in the order in which the labels first occur in the score-sorted list; a
\* label that is part of an earlier label is not left out.
C10_EveryQualifyingLabelShown ==
  Shown =>
    LET entries == Entries(attributionHTML)
        list == esriAttributions.list
        firsts == {i \in QualifyingIndexes :
                     \A j \in QualifyingIndexes : j < i => list[j].attribution # list[i].attribution}
    IN /\ \A i \in QualifyingIndexes :
            \E e \in 1..Len(entries) : entries[e] = list[i].attribution
       /\ \A i \in firsts, j \in firsts :
            i < j => \E e \in 1..Len(entries), f \in 1..Len(entries) :
                       e < f /\ entries[e] = list[i].attribution
                             /\ entries[f] = list[j].attribution
       /\ \A i \in 1..(Len(list) - 1) : list[i].score >= list[i + 1].score

====
